---- MODULE Spec2Model ----
(***************************************************************************)
(* Model of server.js: the two aggregation endpoints /api/order and        *)
(* /api/invoice, the collection fetcher loadCollection and the classifier  *)
(* classifyItem.                                                           *)
(*                                                                         *)
(* JavaScript values are tagged records [k, v]; strings are sequences of   *)
(* one-character strings so that split, trim, toUpperCase, toLowerCase,    *)
(* includes and parseFloat are computed character by character.  Amounts   *)
(* are exact decimals kept in hundredths (100.50 is 10050).                *)
(*                                                                         *)
(* server.js line 114 is not valid JavaScript as written (one closing      *)
(* parenthesis too many).  Both ways of balancing it,                      *)
(*   Math.abs(parseFloat(x)) || 0   and   Math.abs(parseFloat(x) || 0) || 0*)
(* compute the same value, and that value is what invoiceAmount models.    *)
(***************************************************************************)
EXTENDS Integers, Sequences, FiniteSets, TLC

\* ------------------------------------------------------------------ bounds
\* number of requests the server receives
NReq == 2
\* longest Items array the upstream returns
MaxLen == 2

Requests == 1..NReq

\* --------------------------------------------------------- JavaScript values
\* A scalar is [k, s, n]: its kind, its characters when a string, its value
\* in hundredths when a number.
Undefined == [k |-> "undefined", s |-> <<>>, n |-> 0]
Null == [k |-> "null", s |-> <<>>, n |-> 0]
NaN == [k |-> "NaN", s |-> <<>>, n |-> 0]
Num(n) == [k |-> "number", s |-> <<>>, n |-> n]
Str(s) == [k |-> "string", s |-> s, n |-> 0]
\* An element of Items is an object with its fields, or null.
Obj(fields) == [k |-> "object", v |-> fields]

\* ToBoolean, as used by !x, x ? a : b and x || y
Truthy(x) ==
  CASE x.k = "string" -> Len(x.s) > 0
    [] x.k = "number" -> x.n # 0
    [] OTHER -> FALSE

LowerLetters == <<"a","b","c","d","e","f","g","h","i","j","k","l","m",
                  "n","o","p","q","r","s","t","u","v","w","x","y","z">>
UpperLetters == <<"A","B","C","D","E","F","G","H","I","J","K","L","M",
                  "N","O","P","Q","R","S","T","U","V","W","X","Y","Z">>
Digits == <<"0","1","2","3","4","5","6","7","8","9">>

IsDigit(c) == \E i \in 1..10 : Digits[i] = c
DigitVal(c) == (CHOOSE i \in 1..10 : Digits[i] = c) - 1

\* String.prototype.toUpperCase / toLowerCase on a character sequence
toUpperCase(s) ==
  [i \in 1..Len(s) |->
     IF \E j \in 1..26 : LowerLetters[j] = s[i]
       THEN UpperLetters[CHOOSE j \in 1..26 : LowerLetters[j] = s[i]]
       ELSE s[i]]

toLowerCase(s) ==
  [i \in 1..Len(s) |->
     IF \E j \in 1..26 : UpperLetters[j] = s[i]
       THEN LowerLetters[CHOOSE j \in 1..26 : UpperLetters[j] = s[i]]
       ELSE s[i]]

\* String.prototype.trim: drop the leading and trailing blanks
trim(s) ==
  LET ink == {i \in 1..Len(s) : s[i] # " "}
  IN IF ink = {} THEN <<>>
     ELSE SubSeq(s, CHOOSE i \in ink : \A j \in ink : i <= j,
                    CHOOSE i \in ink : \A j \in ink : i >= j)

\* String.prototype.includes
includes(s, sub) ==
  \E i \in 0..(Len(s) - Len(sub)) : SubSeq(s, i + 1, i + Len(sub)) = sub

\* s.split(' ')[0]: the part before the first blank, all of s when none
splitFirst(s) ==
  LET sp == {i \in 1..Len(s) : s[i] = " "}
  IN IF sp = {} THEN s
     ELSE SubSeq(s, 1, (CHOOSE i \in sp : \A j \in sp : i <= j) - 1)

\* number of consecutive decimal digits of s from position i
DigitRun(s, i) ==
  LET ok == {n \in 0..(Len(s) - i + 1) :
               \A j \in i..(i + n - 1) : IsDigit(s[j])}
  IN CHOOSE n \in ok : \A m \in ok : m <= n

RECURSIVE DigitsValue(_, _, _)
\* value of the n digits of s that start at position i
DigitsValue(s, i, n) ==
  IF n = 0 THEN 0
  ELSE 10 * DigitsValue(s, i, n - 1) + DigitVal(s[i + n - 1])

\* parseFloat on a character sequence: leading blanks, a sign, digits, a
\* fraction; the longest numeric prefix counts, none gives NaN.  The value
\* is in hundredths; fraction digits after the second are not represented.
parseFloatChars(s) ==
  LET ink == {i \in 1..Len(s) : s[i] # " "}
      b == IF ink = {} THEN Len(s) + 1
           ELSE CHOOSE i \in ink : \A j \in ink : i <= j
      signed == b <= Len(s) /\ s[b] \in {"-", "+"}
      neg == signed /\ s[b] = "-"
      i0 == IF signed THEN b + 1 ELSE b
      n == DigitRun(s, i0)
      dot == i0 + n
      hasDot == dot <= Len(s) /\ s[dot] = "."
      m == IF hasDot THEN DigitRun(s, dot + 1) ELSE 0
      whole == DigitsValue(s, i0, n)
      frac == IF m = 0 THEN 0
              ELSE IF m = 1 THEN 10 * DigitVal(s[dot + 1])
              ELSE 10 * DigitVal(s[dot + 1]) + DigitVal(s[dot + 2])
      mag == 100 * whole + frac
  IN IF n = 0 /\ m = 0 THEN NaN
     ELSE Num(IF neg THEN 0 - mag ELSE mag)

RECURSIVE NatToChars(_)
\* decimal digits of a natural number
NatToChars(n) ==
  IF n < 10 THEN <<Digits[n + 1]>>
  ELSE NatToChars(n \div 10) \o <<Digits[(n % 10) + 1]>>

\* String(x) for the values a JSON body holds (numbers here are whole)
String(x) ==
  CASE x.k = "string" -> x.s
    [] x.k = "number" ->
         IF x.n < 0 THEN <<"-">> \o NatToChars((0 - x.n) \div 100)
         ELSE NatToChars(x.n \div 100)
    [] x.k = "undefined" -> <<"u","n","d","e","f","i","n","e","d">>
    [] x.k = "null" -> <<"n","u","l","l">>
    [] OTHER -> <<"N","a","N">>

\* parseFloat(x): the argument is converted to a string first
parseFloat(x) ==
  IF x.k = "number" THEN x ELSE parseFloatChars(String(x))

\* x || 0 for a number or NaN x
OrZero(x) == IF Truthy(x) THEN x.n ELSE 0

Abs(n) == IF n < 0 THEN 0 - n ELSE n

\* ------------------------------------------------------------- classifier
Categories == {"Product", "Service", "Misc", "Freight"}

\* the literals of SERVICE_CODES
SERVICE_CODES == { <<"S","E","R","V","I","C","E">>, <<"S","V">>, <<"S","V","R">> }

\* classifyItem without the trim of line 62
classifyItemNoTrim(productCode) ==
  IF ~Truthy(productCode) THEN "Product"
  ELSE LET code == toUpperCase(String(productCode))
       IN IF code \in SERVICE_CODES THEN "Service" ELSE "Product"

\* classifyItem(productCode)
classifyItem(productCode) ==
  IF ~Truthy(productCode) THEN "Product"
  ELSE LET code == toUpperCase(trim(String(productCode)))
       IN IF code \in SERVICE_CODES THEN "Service" ELSE "Product"

\* ------------------------------------------------- resultMap and its prototype
\* The key under which every object reaches Object.prototype.  The other
\* names a {} inherits (constructor, toString, ...) and the category names
\* themselves are not among the date values of this model.
ProtoKey == <<"_","_","p","r","o","t","o","_","_">>

\* Object.prototype before any request: no category-named property.
EmptyProto == [t \in Categories |-> Undefined]

\* resultMap = {}: own properties in insertion order, each date key holding
\* its own bucket of (type, amount) properties in insertion order, which is
\* the order of Object.entries for keys that are not array indices.
EmptyMap == <<>>

HasDate(rm, d) == \E i \in 1..Len(rm) : rm[i].date = d
DateIndex(rm, d) == CHOOSE i \in 1..Len(rm) : rm[i].date = d
HasType(bucket, t) == \E i \in 1..Len(bucket) : bucket[i].type = t
TypeIndex(bucket, t) == CHOOSE i \in 1..Len(bucket) : bucket[i].type = t

\* bucket[t] for a bucket created by {}: the own property, else the one
\* inherited from Object.prototype
GetType(bucket, proto, t) ==
  IF HasType(bucket, t) THEN Num(bucket[TypeIndex(bucket, t)].amount)
  ELSE proto[t]

\* bucket[t] = n: updates the own property or appends a new one
SetType(bucket, t, n) ==
  IF HasType(bucket, t)
    THEN [bucket EXCEPT ![TypeIndex(bucket, t)].amount = n]
    ELSE Append(bucket, [type |-> t, amount |-> n])

\* The three accumulation statements shared by both handlers:
\*   if (!resultMap[dateStr]) resultMap[dateStr] = {};
\*   if (!resultMap[dateStr][type]) resultMap[dateStr][type] = 0;
\*   resultMap[dateStr][type] += amount;
\* acc is [rm, proto, threw].  resultMap["__proto__"] is Object.prototype
\* itself, which is truthy, so the two writes land on Object.prototype.
accumulate(acc, dateStr, type, amount) ==
  IF dateStr = ProtoKey
    THEN LET cur == acc.proto[type]
             base == IF Truthy(cur) THEN cur.n ELSE 0
         IN [acc EXCEPT !.proto[type] = Num(base + amount)]
    ELSE LET rm1 == IF HasDate(acc.rm, dateStr) THEN acc.rm
                    ELSE Append(acc.rm, [date |-> dateStr, types |-> <<>>])
             i == DateIndex(rm1, dateStr)
             cur == GetType(rm1[i].types, acc.proto, type)
             base == IF Truthy(cur) THEN cur.n ELSE 0
         IN [acc EXCEPT !.rm =
               [rm1 EXCEPT ![i].types = SetType(rm1[i].types, type, base + amount)]]

\* row.<dateField> ? row.<dateField>.split(' ')[0] : null
\* gives [threw, dateStr]; a truthy value that is not a string has no split
dateOf(field) ==
  IF ~Truthy(field) THEN [threw |-> FALSE, dateStr |-> Null]
  ELSE IF field.k = "string"
    THEN [threw |-> FALSE, dateStr |-> Str(splitFirst(field.s))]
    ELSE [threw |-> TRUE, dateStr |-> Null]

\* parseFloat(item.ExtendedPrice) || 0
orderAmount(item) == OrZero(parseFloat(item.v.ExtendedPrice))

\* the amount of line 114: |parseFloat(row.DomAmount)|, 0 when it is NaN
invoiceAmount(row) == Abs(OrZero(parseFloat(row.v.DomAmount)))

\* one call of the items.forEach callback of /api/order
orderItem(acc, item) ==
  IF item.k # "object" THEN [acc EXCEPT !.threw = TRUE]
  ELSE LET d == dateOf(item.v.RecordDate)
           amount == orderAmount(item)
           type == classifyItem(item.v.WBItProductCode)
       IN IF d.threw THEN [acc EXCEPT !.threw = TRUE]
          ELSE IF ~Truthy(d.dateStr) \/ amount = 0 THEN acc
          ELSE accumulate(acc, d.dateStr.s, type, amount)

\* (row.FRDerDescription || '').toLowerCase(): [threw, desc]
descOf(row) ==
  LET f == row.v.FRDerDescription
  IN IF ~Truthy(f) THEN [threw |-> FALSE, desc |-> <<>>]
     ELSE IF f.k = "string" THEN [threw |-> FALSE, desc |-> toLowerCase(f.s)]
     ELSE [threw |-> TRUE, desc |-> <<>>]

\* String(row.DerItemProductCode || row.ItemProductCode ||
\*        row.NonInvItemProductCode || '').toUpperCase()
prodCode(row) ==
  LET a == row.v.DerItemProductCode
      b == row.v.ItemProductCode
      c == row.v.NonInvItemProductCode
      pick == IF Truthy(a) THEN a ELSE IF Truthy(b) THEN b
              ELSE IF Truthy(c) THEN c ELSE Str(<<>>)
  IN Str(toUpperCase(String(pick)))

\* lines 117-126 with the misc test placed before the freight test
invoiceTypeMiscFirst(row) ==
  LET desc == descOf(row).desc
  IN IF includes(desc, <<"m","i","s","c">>) THEN "Misc"
     ELSE IF includes(desc, <<"f","r","e","i","g","h","t">>) THEN "Freight"
     ELSE classifyItem(prodCode(row))

\* the if / else if / else of lines 117-126, for a usable description
invoiceType(row) ==
  LET desc == descOf(row).desc
  IN IF includes(desc, <<"f","r","e","i","g","h","t">>) THEN "Freight"
     ELSE IF includes(desc, <<"m","i","s","c">>) THEN "Misc"
     ELSE classifyItem(prodCode(row))

\* one call of the ledgers.forEach callback of /api/invoice
invoiceItem(acc, row) ==
  IF row.k # "object" THEN [acc EXCEPT !.threw = TRUE]
  ELSE LET d == dateOf(row.v.FRDerInvDate)
           amount == invoiceAmount(row)
       IN IF d.threw THEN [acc EXCEPT !.threw = TRUE]
          ELSE IF ~Truthy(d.dateStr) \/ amount = 0 THEN acc
          ELSE IF descOf(row).threw THEN [acc EXCEPT !.threw = TRUE]
          ELSE accumulate(acc, d.dateStr.s, invoiceType(row), amount)

forEachItem(ep, acc, item) ==
  IF ep = "order" THEN orderItem(acc, item) ELSE invoiceItem(acc, item)

RECURSIVE forEach(_, _, _, _)
\* items.forEach(...) over the first n items; an exception ends the loop
forEach(ep, items, n, acc0) ==
  IF n = 0 THEN acc0
  ELSE LET acc == forEach(ep, items, n - 1, acc0)
       IN IF acc.threw THEN acc ELSE forEachItem(ep, acc, items[n])

\* the resultMap, Object.prototype and exception state after the loop
aggregate(ep, items, proto) ==
  forEach(ep, items, Len(items), [rm |-> EmptyMap, proto |-> proto, threw |-> FALSE])

RECURSIVE flatten(_)
\* Object.entries(resultMap).forEach(... result.push({date, type, amount}))
flatten(rm) ==
  IF rm = <<>> THEN <<>>
  ELSE [i \in 1..Len(rm[1].types) |->
          [date |-> rm[1].date, type |-> rm[1].types[i].type,
           amount |-> rm[1].types[i].amount]]
       \o flatten(Tail(rm))

\* ------------------------------------------------------------ upstream data
\* Field values the upstream returns, as character sequences.
sDate1 == Str(<<"2","0","2","4","-","0","1","-","0","5"," ","0","0",":","0","0",":","0","0">>)
sDate1b == Str(<<"2","0","2","4","-","0","1","-","0","5">>)
sDate2 == Str(<<"2","0","2","4","-","0","2","-","0","1"," ","1","2",":","0","0",":","0","0">>)
sProto == Str(<<"_","_","p","r","o","t","o","_","_">>)
sBlankDate == Str(<<" ","2","0","2","4","-","0","1","-","0","5">>)
s100_50 == Str(<<"1","0","0",".","5","0">>)
s50 == Str(<<"5","0">>)
sMinus75 == Str(<<"-","7","5">>)
sMinus50 == Str(<<"-","5","0">>)
sZero == Str(<<"0">>)
sAbc == Str(<<"a","b","c">>)
sSv == Str(<<"s","v">>)
sSV == Str(<<"S","V">>)
sSvrPad == Str(<<" ","S","v","r"," ">>)
sService == Str(<<"s","e","r","v","i","c","e">>)
sWidget == Str(<<"W","I","D","G","E","T">>)
sSVX == Str(<<"S","V","X">>)
sSpaced == Str(<<"S"," ","V">>)
sFreightCharge == Str(<<"F","r","e","i","g","h","t"," ","C","h","a","r","g","e">>)
sMiscFreight == Str(<<"m","i","s","c"," ","f","r","e","i","g","h","t">>)
sMiscFee == Str(<<"M","i","s","c"," ","f","e","e">>)
sRepair == Str(<<"R","e","p","a","i","r">>)

\* a date field that is a JSON number, not a string
nDate == Num(2024010500)
\* a description that is a JSON number
nDesc == Num(700)

\* an SLCoitems record
OrderRec(d, a, c) ==
  Obj([RecordDate |-> d, ExtendedPrice |-> a, WBItProductCode |-> c])

\* a null element of the SLCoitems Items array
NullOrder ==
  [k |-> "null",
   v |-> [RecordDate |-> Undefined, ExtendedPrice |-> Undefined,
          WBItProductCode |-> Undefined]]

\* an SLLedgers record
LedgerRec(d, a, desc, c1, c2, c3) ==
  Obj([FRDerInvDate |-> d, DomAmount |-> a, FRDerDescription |-> desc,
       DerItemProductCode |-> c1, ItemProductCode |-> c2,
       NonInvItemProductCode |-> c3])

\* a null element of the SLLedgers Items array
NullLedger ==
  [k |-> "null",
   v |-> [FRDerInvDate |-> Undefined, DomAmount |-> Undefined,
          FRDerDescription |-> Undefined, DerItemProductCode |-> Undefined,
          ItemProductCode |-> Undefined, NonInvItemProductCode |-> Undefined]]

DateValues == {Undefined, Str(<<>>), sDate1, sDate1b, sDate2, sProto, sBlankDate, nDate}
AmountValues == {Undefined, sZero, sAbc, s100_50, s50, sMinus50, Num(5000)}
CodeValues == {Undefined, Null, Str(<<>>), sSv, sSV, sSvrPad, sService, sWidget,
               sSVX, sSpaced, Num(500)}
DescValues == {Undefined, sFreightCharge, sMiscFreight, sMiscFee, sRepair, nDesc}
CodeTriples == { <<sSv, sWidget, Undefined>>, <<Str(<<>>), sWidget, sSv>> }

\* Records of the one-request runs: every date value, every amount value
\* and every product-code value, each with the other fields well-formed;
\* for the ledger also every description with every choice of the three
\* product-code fields.
OrderRecords ==
  {NullOrder}
  \cup {OrderRec(d, s50, sWidget) : d \in DateValues}
  \cup {OrderRec(nDate, sZero, sWidget)}
  \cup {OrderRec(sDate1, a, sWidget) : a \in AmountValues}
  \cup {OrderRec(sDate1, s100_50, c) : c \in CodeValues}

LedgerRecords ==
  {NullLedger}
  \cup {LedgerRec(d, sMinus75, Undefined, Undefined, Undefined, Undefined) :
          d \in DateValues}
  \cup {LedgerRec(nDate, sZero, Undefined, Undefined, Undefined, Undefined)}
  \cup {LedgerRec(sDate2, a, Undefined, sSv, Undefined, Undefined) :
          a \in {Undefined, sZero, sAbc, s50, sMinus50, Num(-5000)}}
  \cup {LedgerRec(sDate2, sMinus75, Undefined, Null, Undefined, sSvrPad)}
  \cup {LedgerRec(sDate2, sMinus75, desc, c[1], c[2], c[3]) :
          desc \in DescValues, c \in CodeTriples}

\* Items arrays of the concurrent runs: empty, well-formed, with a
\* "__proto__" date, and with a record that makes the loop throw.
oGood == OrderRec(sDate1, s50, sWidget)
oProto == OrderRec(sProto, s50, Undefined)
lGood == LedgerRec(sDate1, sMinus75, sFreightCharge, Undefined, Undefined, Undefined)
lPlain == LedgerRec(sDate1, sMinus75, Undefined, sWidget, Undefined, Undefined)
lProto == LedgerRec(sProto, sMinus75, Undefined, Undefined, Undefined, Undefined)
lBadDate == LedgerRec(nDate, sMinus75, Undefined, Undefined, Undefined, Undefined)

FewOrderLists ==
  { <<>>, <<oGood>>, <<oProto>>, <<oGood, oProto>>, <<oProto, oGood>>,
    <<oGood, oGood>>, <<oGood, NullOrder>> }

FewLedgerLists ==
  { <<>>, <<lGood>>, <<lProto>>, <<lPlain, lProto>>, <<lGood, lPlain>>,
    <<lPlain, lBadDate>> }

\* the Items arrays of at most n records drawn from S
Lists(S, n) == UNION {[1..m -> S] : m \in 0..n}

\* ------------------------------------------------------------------- state
VARIABLES
  pc,        \* per request: "idle", "fetching" (suspended in await), "done"
  endpoint,  \* per request: "order" or "invoice" once it has arrived
  fetches,   \* per request: number of axios.get calls issued for it
  settled,   \* per request: how its axios.get settled
  responses, \* per request: the responses sent on res, in order
  objProto   \* Object.prototype's category-named properties (process-wide)

vars == <<pc, endpoint, fetches, settled, responses, objProto>>

Endpoints == {"order", "invoice"}

\* the ways axios.get settles: rejected (transport error, non-2xx status),
\* resolved with a body that has no Items, resolved with an Items array
Rejected == [kind |-> "rejected", Items |-> <<>>]
NoItems == [kind |-> "noItems", Items |-> <<>>]
WithItems(l) == [kind |-> "items", Items |-> l]
Unsettled == [kind |-> "pending", Items |-> <<>>]

\* loadCollection answering a body without Items with an empty list
loadCollectionLenient(result) ==
  IF result.kind \in {"items", "noItems"}
    THEN [threw |-> FALSE, Items |-> result.Items]
    ELSE [threw |-> TRUE, Items |-> <<>>]

\* loadCollection lines 45-54: the Items array, or the rethrown error
loadCollection(result) ==
  IF result.kind = "items"
    THEN [threw |-> FALSE, Items |-> result.Items]
    ELSE [threw |-> TRUE, Items |-> <<>>]

\* the error body of each handler's catch block
errorBody(ep) ==
  IF ep = "order" THEN "Failed to load order data"
  ELSE "Failed to load invoice data"

Ok200(result) == [status |-> 200, result |-> result, error |-> ""]
Err500(ep) == [status |-> 500, result |-> <<>>, error |-> errorBody(ep)]

\* The handler from the point where the await resumes to its end:
\* [response, proto].  Writes to Object.prototype made before an exception
\* stay.
handler(ep, result, proto) ==
  LET loaded == loadCollection(result)
  IN IF loaded.threw THEN [response |-> Err500(ep), proto |-> proto]
     ELSE LET acc == aggregate(ep, loaded.Items, proto)
          IN IF acc.threw THEN [response |-> Err500(ep), proto |-> acc.proto]
             ELSE [response |-> Ok200(flatten(acc.rm)), proto |-> acc.proto]

Init ==
  /\ pc = [r \in Requests |-> "idle"]
  /\ endpoint = [r \in Requests |-> "order"]
  /\ fetches = [r \in Requests |-> 0]
  /\ settled = [r \in Requests |-> Unsettled]
  /\ responses = [r \in Requests |-> <<>>]
  /\ objProto = EmptyProto

\* a handler that issues its axios.get twice
RequestTwice(r, ep) ==
  /\ pc[r] = "idle"
  /\ pc' = [pc EXCEPT ![r] = "fetching"]
  /\ endpoint' = [endpoint EXCEPT ![r] = ep]
  /\ fetches' = [fetches EXCEPT ![r] = @ + 2]
  /\ UNCHANGED <<settled, responses, objProto>>

\* A request arrives: the handler runs up to the await in loadCollection,
\* issuing its axios.get.
Request(r, ep) ==
  /\ pc[r] = "idle"
  /\ pc' = [pc EXCEPT ![r] = "fetching"]
  /\ endpoint' = [endpoint EXCEPT ![r] = ep]
  /\ fetches' = [fetches EXCEPT ![r] = @ + 1]
  /\ UNCHANGED <<settled, responses, objProto>>

\* The axios.get of request r settles and the handler runs to completion.
Settle(r, result) ==
  /\ pc[r] = "fetching"
  /\ LET h == handler(endpoint[r], result, objProto)
     IN /\ responses' = [responses EXCEPT ![r] = Append(@, h.response)]
        /\ objProto' = h.proto
  /\ settled' = [settled EXCEPT ![r] = result]
  /\ pc' = [pc EXCEPT ![r] = "done"]
  /\ UNCHANGED <<endpoint, fetches>>

AxiosReject(r) == Settle(r, Rejected)

AxiosResolveNoItems(r) == Settle(r, NoItems)

\* axios.get resolves with a body whose Items is one of the given lists
AxiosResolveItems(r, lists) ==
  /\ pc[r] = "fetching"
  /\ \E l \in lists : Settle(r, WithItems(l))

RecordsOf(ep) == IF ep = "order" THEN OrderRecords ELSE LedgerRecords
FewListsOf(ep) == IF ep = "order" THEN FewOrderLists ELSE FewLedgerLists

\* Concurrent requests over the few Items arrays.
Next ==
  \E r \in Requests :
    \/ \E ep \in Endpoints : Request(r, ep)
    \/ AxiosReject(r)
    \/ AxiosResolveNoItems(r)
    \/ AxiosResolveItems(r, FewListsOf(endpoint[r]))

Spec == Init /\ [][Next]_vars

\* One request over the full record sets.
NextOne ==
  \/ \E ep \in Endpoints : Request(1, ep)
  \/ AxiosReject(1)
  \/ AxiosResolveNoItems(1)
  \/ AxiosResolveItems(1, Lists(RecordsOf(endpoint[1]), MaxLen))

SpecOne == Init /\ [][NextOne]_vars

\* ------------------------------------------------- vocabulary of the claims
Done(r) == pc[r] = "done"
GotItems(r) == Done(r) /\ settled[r].kind = "items"
Response(r) == responses[r][1]
Answered200(r) == GotItems(r) /\ Len(responses[r]) = 1 /\ Response(r).status = 200

DateField(ep, item) ==
  IF ep = "order" THEN item.v.RecordDate ELSE item.v.FRDerInvDate

ExtractedAmount(ep, item) ==
  IF ep = "order" THEN orderAmount(item) ELSE invoiceAmount(item)

\* the date portion of a record whose date field is a non-empty string
DatePortion(ep, item) == splitFirst(DateField(ep, item).s)

\* a record the aggregation does not drop: it has a date portion and a
\* non-zero extracted amount
NonDropped(ep, item) ==
  /\ item.k = "object"
  /\ DateField(ep, item).k = "string"
  /\ DatePortion(ep, item) # <<>>
  /\ ExtractedAmount(ep, item) # 0

CategoryOf(ep, item) ==
  IF ep = "order" THEN classifyItem(item.v.WBItProductCode) ELSE invoiceType(item)

RECURSIVE SumAmounts(_)
SumAmounts(seq) ==
  IF seq = <<>> THEN 0 ELSE Head(seq) + SumAmounts(Tail(seq))

\* sum of the amounts of the emitted tuples of date d
EmittedSum(result, d) ==
  LET sel == SelectSeq(result, LAMBDA e : e.date = d)
  IN SumAmounts([i \in 1..Len(sel) |-> sel[i].amount])

\* sum of the extracted amounts of the non-dropped records of date d
ExtractedSum(ep, items, d) ==
  LET sel == SelectSeq(items,
               LAMBDA it : NonDropped(ep, it) /\ DatePortion(ep, it) = d)
  IN SumAmounts([i \in 1..Len(sel) |-> ExtractedAmount(ep, sel[i])])

DatesOf(ep, items, result) ==
  {DatePortion(ep, items[i]) : i \in {j \in 1..Len(items) : NonDropped(ep, items[j])}}
  \cup {result[i].date : i \in 1..Len(result)}

\* the list without its i-th record
Without(items, i) ==
  [j \in 1..(Len(items) - 1) |-> IF j < i THEN items[j] ELSE items[j + 1]]

\* C1: for every list the fetch returned and every date, the amounts of the
\* emitted tuples of that date sum to the extracted amounts of the
\* non-dropped records of that date (stated for the requests answered 200).
C1_ConservationPerDate ==
  \A r \in Requests :
    Answered200(r) =>
      \A d \in DatesOf(endpoint[r], settled[r].Items, Response(r).result) :
        EmittedSum(Response(r).result, d)
          = ExtractedSum(endpoint[r], settled[r].Items, d)

\* C2: every amount stored in resultMap after any number of records, and
\* every emitted amount, is non-negative.
C2_AmountsNonNegative ==
  \A r \in Requests :
    GotItems(r) =>
      /\ \A n \in 0..Len(settled[r].Items) :
           LET rm == forEach(endpoint[r], settled[r].Items, n,
                             [rm |-> EmptyMap, proto |-> EmptyProto,
                              threw |-> FALSE]).rm
           IN \A i \in 1..Len(rm) : \A j \in 1..Len(rm[i].types) :
                rm[i].types[j].amount >= 0
      /\ \A i \in 1..Len(Response(r).result) : Response(r).result[i].amount >= 0

\* a record every field of which the handlers can read: an object whose
\* date and description fields are strings or missing
Readable(ep, item) ==
  /\ item.k = "object"
  /\ DateField(ep, item).k \in {"string", "undefined", "null"}
  /\ ep = "invoice" => item.v.FRDerDescription.k \in {"string", "undefined", "null"}

\* C3: whatever records of a fetched list are malformed, the request answers
\* 200 with the aggregation of the remaining records.
C3_MalformedRecordSkipped ==
  \A r \in Requests :
    GotItems(r) =>
      LET rest == SelectSeq(settled[r].Items,
                            LAMBDA it : Readable(endpoint[r], it))
      IN /\ Response(r).status = 200
         /\ Response(r) = handler(endpoint[r], WithItems(rest), EmptyProto).response

\* C4: a request whose fetch failed (rejected, or a body without Items) has
\* issued one fetch and sent exactly one response, the 500 with the fixed
\* error body of its endpoint and no result.
C4_FetchFailureIs500 ==
  \A r \in Requests :
    (Done(r) /\ settled[r].kind \in {"rejected", "noItems"}) =>
      /\ fetches[r] = 1
      /\ responses[r] =
           << [status |-> 500, result |-> <<>>,
               error |-> IF endpoint[r] = "order"
                           THEN "Failed to load order data"
                           ELSE "Failed to load invoice data"] >>

C4_Witness ==
  \E r1, r2 \in Requests :
    /\ Done(r1) /\ endpoint[r1] = "order" /\ settled[r1].kind = "rejected"
    /\ Done(r2) /\ endpoint[r2] = "invoice" /\ settled[r2].kind = "noItems"

\* C5: two requests to the same endpoint whose fetches returned the same
\* list received the same response, and each issued its own fetch.
C5_ResponseDependsOnOwnFetchOnly ==
  \A r1, r2 \in Requests :
    (GotItems(r1) /\ GotItems(r2) /\ endpoint[r1] = endpoint[r2]
       /\ settled[r1].Items = settled[r2].Items) =>
      /\ responses[r1] = responses[r2]
      /\ fetches[r1] = 1 /\ fetches[r2] = 1

\* the claims' own reading of "the lower-cased description contains w":
\* some window of the description spells w, upper or lower case
SpellsAt(s, i, w) ==
  /\ i + Len(w) - 1 <= Len(s)
  /\ \A j \in 1..Len(w) :
       s[i + j - 1] = w[j] \/ toUpperCase(<<s[i + j - 1]>>) = toUpperCase(<<w[j]>>)

Mentions(field, w) ==
  field.k = "string" /\ \E i \in 1..Len(field.s) : SpellsAt(field.s, i, w)

Blank(s, from, to) == \A i \in from..to : s[i] = " "

\* a code that, blanks at both ends and letter case aside, spells one of
\* SERVICE, SV, SVR
SpellsServiceCode(s) ==
  \E w \in { <<"S","E","R","V","I","C","E">>, <<"S","V">>, <<"S","V","R">> } :
    \E i \in 1..Len(s) :
      /\ SpellsAt(s, i, w)
      /\ Blank(s, 1, i - 1)
      /\ Blank(s, i + Len(w), Len(s))

\* the category the classifier is specified to give a product-code value
ExpectedClass(x) ==
  IF Truthy(x) /\ SpellsServiceCode(String(x)) THEN "Service" ELSE "Product"

\* the first non-empty of the three product-code fields, "" when none
FirstNonEmpty(codes) ==
  LET full == {i \in 1..Len(codes) : Truthy(codes[i])}
  IN IF full = {} THEN Str(<<>>)
     ELSE codes[CHOOSE i \in full : \A j \in full : i <= j]

\* the category the priority order of the invoice pipeline prescribes
ExpectedInvoiceType(row) ==
  IF Mentions(row.v.FRDerDescription, <<"f","r","e","i","g","h","t">>) THEN "Freight"
  ELSE IF Mentions(row.v.FRDerDescription, <<"m","i","s","c">>) THEN "Misc"
  ELSE ExpectedClass(FirstNonEmpty(<<row.v.DerItemProductCode,
                                     row.v.ItemProductCode,
                                     row.v.NonInvItemProductCode>>))

HasTuple(result, d, ty) ==
  \E i \in 1..Len(result) : result[i].date = d /\ result[i].type = ty

\* C6: in a request answered 200 by /api/invoice, every non-dropped record is
\* given the category of the priority order freight, misc, product code,
\* and its (date, category) is what the response carries for it.
C6_InvoicePriorityOrder ==
  \A r \in Requests :
    (Answered200(r) /\ endpoint[r] = "invoice") =>
      \A i \in 1..Len(settled[r].Items) :
        LET row == settled[r].Items[i]
        IN NonDropped("invoice", row) =>
             /\ invoiceType(row) = ExpectedInvoiceType(row)
             /\ DatePortion("invoice", row) # ProtoKey =>
                  HasTuple(Response(r).result, DatePortion("invoice", row),
                           ExpectedInvoiceType(row))

\* a description naming both freight and misc, with a service code, came out
\* as Freight; and a misc description with a service code came out as Misc
C6_Witness ==
  \E r \in Requests :
    /\ Answered200(r) /\ endpoint[r] = "invoice"
    /\ settled[r].Items =
         << LedgerRec(sDate2, sMinus75, sMiscFreight, sSv, sWidget, Undefined),
            LedgerRec(sDate2, sMinus75, sMiscFee, sSv, sWidget, Undefined) >>
    /\ Response(r).result =
         << [date |-> splitFirst(sDate2.s), type |-> "Freight", amount |-> 7500],
            [date |-> splitFirst(sDate2.s), type |-> "Misc", amount |-> 7500] >>

\* a record that C7 says contributes nothing: its date field is empty or
\* missing, or its amount is missing, non-numeric or zero
Idle(ep, item) ==
  /\ item.k = "object"
  /\ \/ ~Truthy(DateField(ep, item))
     \/ ExtractedAmount(ep, item) = 0

\* C7: the response for a list holding such a record is the response for the
\* list with that record removed.
C7_IdleRecordContributesNothing ==
  \A r \in Requests :
    GotItems(r) =>
      \A i \in 1..Len(settled[r].Items) :
        Idle(endpoint[r], settled[r].Items[i]) =>
          Response(r) =
            handler(endpoint[r], WithItems(Without(settled[r].Items, i)),
                    EmptyProto).response

\* C8: a request that has not arrived has issued no fetch; one suspended in
\* its fetch has issued exactly one and sent nothing; one whose fetch has
\* settled has issued exactly one and sent exactly one response, 200 or 500.
C8_OneFetchOneResponse ==
  \A r \in Requests :
    /\ fetches[r] = IF pc[r] = "idle" THEN 0 ELSE 1
    /\ Len(responses[r]) = IF settled[r].kind = "pending" THEN 0 ELSE 1
    /\ pc[r] = "done" <=> settled[r].kind # "pending"
    /\ \A i \in 1..Len(responses[r]) : responses[r][i].status \in {200, 500}

\* one request is still suspended with nothing sent while another, whose
\* fetch returned records, has been answered 500
C8_Witness ==
  \E r1, r2 \in Requests :
    /\ pc[r1] = "fetching" /\ fetches[r1] = 1 /\ responses[r1] = <<>>
    /\ pc[r2] = "done" /\ fetches[r2] = 1 /\ Len(responses[r2]) = 1
    /\ responses[r2][1].status = 500 /\ settled[r2].kind = "items"

\* the (date, category) pairs that received a contribution
Contributed(ep, items) ==
  { <<DatePortion(ep, items[i]), CategoryOf(ep, items[i])>> :
      i \in {j \in 1..Len(items) : NonDropped(ep, items[j])} }

\* C9: in a request answered 200 the emitted tuples are, one each, exactly
\* the (date, category) pairs that received a contribution.
C9_OneTuplePerPopulatedPair ==
  \A r \in Requests :
    Answered200(r) =>
      LET res == Response(r).result
      IN /\ {<<res[i].date, res[i].type>> : i \in 1..Len(res)}
              = Contributed(endpoint[r], settled[r].Items)
         /\ \A i, j \in 1..Len(res) :
              (res[i].date = res[j].date /\ res[i].type = res[j].type) => i = j

\* C10: classifyItem gives every product-code value of a fetched order
\* record the category the service-code set prescribes, Product for a
\* missing or empty one, and /api/order emits no other type than these two.
C10_ClassifierTotalAndExact ==
  /\ classifyItem(Undefined) = "Product"
  /\ classifyItem(Str(<<"s","v">>)) = "Service"
  /\ classifyItem(Str(<<"w","i","d","g","e","t">>)) = "Product"
  /\ \A r \in Requests :
       (GotItems(r) /\ endpoint[r] = "order") =>
         /\ \A i \in 1..Len(settled[r].Items) :
              LET item == settled[r].Items[i]
              IN /\ classifyItem(item.v.WBItProductCode)
                      = ExpectedClass(item.v.WBItProductCode)
                 /\ (Answered200(r) /\ NonDropped("order", item)
                       /\ DatePortion("order", item) # ProtoKey) =>
                      HasTuple(Response(r).result, DatePortion("order", item),
                               ExpectedClass(item.v.WBItProductCode))
         /\ \A i \in 1..Len(Response(r).result) :
              Response(r).result[i].type \in {"Product", "Service"}

\* a padded mixed-case service code and a code that only starts like one
\* were fetched together and came out as Service and Product
C10_Witness ==
  \E r \in Requests :
    /\ Answered200(r) /\ endpoint[r] = "order"
    /\ settled[r].Items = << OrderRec(sDate1, s100_50, sSvrPad),
                             OrderRec(sDate1, s100_50, sSVX) >>
    /\ Response(r).result =
         << [date |-> splitFirst(sDate1.s), type |-> "Service", amount |-> 10050],
            [date |-> splitFirst(sDate1.s), type |-> "Product", amount |-> 10050] >>

====
